---- MODULE Spec2Model ----
(***************************************************************************)
(* Model of the table indexer (src/src/indexer.py), its on-disk cache and  *)
(* the search engine (src/src/search_engine.py).                           *)
(*                                                                         *)
(* Python's Optional values are modelled as sequences of length 0 or 1:    *)
(* None is <<>> and a set value x is <<x>>.  A text is the sequence of the *)
(* parts that Python joins with single spaces.  A vector is a pair of      *)
(* integers; similarities are fixed-point numbers in units of 1/10000,     *)
(* the precision of round(score, 4).                                       *)
(***************************************************************************)
EXTENDS Integers, Sequences, FiniteSets, TLC

\* ------------------------------------------------------------------ bounds
MaxTables == 2
MaxTopK == 2

\* ------------------------------------------------------------ Python values
None == <<>>

Some(x) == <<x>>

\* --------------------------------------------------------------- config.py
EMBEDDING_MODEL == "all-MiniLM-L6-v2"

TOP_K_RESULTS == 10

OtherModel == "paraphrase-MiniLM-L3-v2"

Models == {EMBEDDING_MODEL, OtherModel}

\* The cache file of Config.CACHE_DIR, reached by cache_path = None (the
\* default), or by passing its path explicitly; and a path that never exists.
NoPath == ""

ExplicitPath == "data/cache/index.pkl"

NonexistentPath == "/nonexistent/path.pkl"

CachePaths == {NoPath, ExplicitPath, NonexistentPath}

\* ------------------------------------------------------------ table records
UsersTable ==
  [table_name |-> "users", description |-> "User account information",
   columns |-> << [column_name |-> "user_id", data_type |-> "STRING", description |-> "User ID"],
                  [column_name |-> "email", data_type |-> "STRING", description |-> "Email"] >>]

OrdersTable ==
  [table_name |-> "orders", description |-> "No description available",
   columns |-> << [column_name |-> "order_id", data_type |-> "STRING", description |-> ""] >>]

Tables == {UsersTable, OrdersTable}

RECURSIVE SeqsUpTo(_, _)
SeqsUpTo(S, n) ==
  IF n = 0 THEN {<<>>}
  ELSE LET shorter == SeqsUpTo(S, n - 1)
       IN  shorter \cup {Append(s, x) : s \in shorter, x \in S}

MetadataLists == SeqsUpTo(Tables, MaxTables)

Queries == {"account information", "orders"}

\* ------------------------------------------------- _create_searchable_text
RECURSIVE ColumnNames(_)
ColumnNames(columns) ==
  IF columns = <<>> THEN <<>>
  ELSE (IF Head(columns).column_name # "" THEN <<Head(columns).column_name>> ELSE <<>>)
       \o ColumnNames(Tail(columns))

RECURSIVE ColumnDescs(_)
ColumnDescs(columns) ==
  IF columns = <<>> THEN <<>>
  ELSE (IF Head(columns).description # "" THEN <<Head(columns).description>> ELSE <<>>)
       \o ColumnDescs(Tail(columns))

create_searchable_text(table) ==
  LET column_names == ColumnNames(table.columns)
      column_descs == ColumnDescs(table.columns)
  IN  <<table.table_name, table.table_name>>
      \o (IF table.description # "" /\ table.description # "No description available"
          THEN <<table.description>> ELSE <<>>)
      \o (IF column_names # <<>> THEN <<"Columns:">> \o column_names ELSE <<>>)
      \o column_descs

\* ------------------------------------------------------ Embedding Provider
\* SentenceTransformer.encode of one text: deterministic for a fixed model
\* and input.  The vectors have integer norms (1, 2 or 5).
EncodeText(model, text) ==
  IF model = EMBEDDING_MODEL
  THEN CASE text[1] = "users" -> <<3, 4>>
         [] text[1] = "orders" -> <<0, 1>>
         [] text[1] = "account information" -> <<3, 4>>
         [] OTHER -> <<0, 2>>
  ELSE CASE text[1] = "users" -> <<0, 1>>
         [] text[1] = "orders" -> <<0, 2>>
         [] text[1] = "account information" -> <<0, 1>>
         [] OTHER -> <<4, 3>>

\* encode of a batch: output vector i is the encoding of input text i.
EncodeBatch(model, texts) == [i \in 1..Len(texts) |-> EncodeText(model, texts[i])]

SearchableTexts(tables_metadata) ==
  [i \in 1..Len(tables_metadata) |-> create_searchable_text(tables_metadata[i])]

\* ------------------------------------------------------------------ pickle
\* pickle.dump of the dict written by save_index: the protocol header, the
\* entries in insertion order, and the closing STOP opcode.  A blob cut short
\* lacks the STOP.
pickle_dump(obj) ==
  << [key |-> "PROTO", val |-> None],
     [key |-> "embeddings", val |-> obj.embeddings],
     [key |-> "metadata", val |-> obj.metadata],
     [key |-> "model_name", val |-> Some(obj.model_name)],
     [key |-> "STOP", val |-> None] >>

\* pickle.load: fails (EOFError / UnpicklingError) unless the blob ends with
\* STOP; otherwise yields the entries between the header and the STOP.
pickle_load(bytes) ==
  IF Len(bytes) > 1 /\ bytes[Len(bytes)].key = "STOP"
  THEN [ok |-> TRUE, data |-> SubSeq(bytes, 2, Len(bytes) - 1)]
  ELSE [ok |-> FALSE, data |-> <<>>]

\* key in data
HasKey(data, k) == \E i \in 1..Len(data) : data[i].key = k

\* data[k]
Get(data, k) == data[CHOOSE i \in 1..Len(data) : data[i].key = k].val

\* ------------------------------------------------------------------- state
VARIABLES
  model_name,   \* TableIndexer.model_name
  embeddings,   \* TableIndexer.embeddings: None or Some(sequence of vectors)
  metadata,     \* TableIndexer.metadata: None or Some(sequence of records)
  cache_dir,    \* whether the directory Config.CACHE_DIR exists
  cache_file,   \* the file CACHE_DIR/index.pkl: None (absent) or Some(blob)
  call,         \* the last call made: operation and arguments
  ret,          \* what the last call returned or raised
  succeeded,    \* a build_index or load_index succeeded on this indexer
  saved,        \* the index the last completed save_index wrote, or None
  argsort_ties  \* how the build's np.argsort orders equal values

vars == <<model_name, embeddings, metadata, cache_dir, cache_file, call, ret, succeeded, saved,
          argsort_ties>>

\* Equal values in index order (a stable sort) or against it.
ArgsortKinds == {"stable", "reversed"}

\* num_tables is len(tables_metadata) of a build_index call; force_rebuild and
\* use_cache are the argument and the Config.USE_CACHE of a main.build_index
\* call.
Call(op, cache_path, num_tables, query, top_k) ==
  [op |-> op, cache_path |-> cache_path, num_tables |-> num_tables, query |-> query,
   top_k |-> top_k, force_rebuild |-> FALSE, use_cache |-> FALSE]

\* load is how the cache load of a main.build_index call ended ("" when the
\* call made none).
NoResult == [kind |-> "return", error |-> "", flag |-> FALSE, results |-> <<>>,
             top_indices |-> <<>>, encode_calls |-> 0, load |-> ""]

Return(flag) == [NoResult EXCEPT !.flag = flag]

Raise(error) == [NoResult EXCEPT !.kind = "raise", !.error = error]

\* os.path.exists(cache_path)
PathExists(cache_path) == cache_path # NonexistentPath /\ cache_file # None

\* -------------------------------------------------------- cosine similarity
Dot(a, b) == a[1] * b[1] + a[2] * b[2]

\* np.linalg.norm of a vector (the vectors of the model have integer norms)
Norm(v) == CHOOSE n \in 0..10 : n * n = Dot(v, v)

\* v / norm(v), in units of 1/100
Normalize(v) == [i \in 1..2 |-> (v[i] * 100) \div Norm(v)]

\* _calculate_cosine_similarity: one similarity per stored vector, in units
\* of 1/10000
calculate_cosine_similarity(query_vec, emb) ==
  LET query_norm == Normalize(query_vec)
      embeddings_norm == [i \in 1..Len(emb) |-> Normalize(emb[i])]
  IN  [i \in 1..Len(emb) |-> Dot(embeddings_norm[i], query_norm)]

\* The results np.argsort may give: the orderings of the indices that put the
\* values in ascending order.  The default kind, quicksort, is not stable, so
\* the order of equal values is not determined by the code; it is determined
\* by the implementation the build runs (argsort_ties), which gives the same
\* output for the same input.
Argsort(values) ==
  LET n == Len(values)
  IN  {p \in [1..n -> 1..n] :
         /\ \A i, j \in 1..n : i # j => p[i] # p[j]
         /\ \A i \in 1..n : i < n =>
              \/ values[p[i]] < values[p[i + 1]]
              \/ /\ values[p[i]] = values[p[i + 1]]
                 /\ IF argsort_ties = "stable" THEN p[i] < p[i + 1] ELSE p[i] > p[i + 1]}

\* a[::-1]
Reverse(a) == [i \in 1..Len(a) |-> a[Len(a) + 1 - i]]

\* a[:k] for k >= 0
Take(a, k) == SubSeq(a, 1, IF k < Len(a) THEN k ELSE Len(a))

\* -------------------------------------------------------- _format_columns
\* f'({n} more columns)'
MoreColumns(n) == <<"(", n, " more columns)">>

\* A formatting that adds the closing entry from five columns on.
format_columns_from_five(columns) ==
  [i \in 1..(IF Len(columns) < 5 THEN Len(columns) ELSE 5) |->
     [name |-> columns[i].column_name,
      type |-> columns[i].data_type,
      description |-> columns[i].description]]
  \o (IF Len(columns) >= 5
      THEN << [name |-> "...", type |-> MoreColumns(Len(columns) - 5), description |-> ""] >>
      ELSE <<>>)

\* _format_columns(columns)
format_columns(columns) ==
  LET limited_columns == SubSeq(columns, 1, IF Len(columns) < 5 THEN Len(columns) ELSE 5)
      formatted == [i \in 1..Len(limited_columns) |->
                      [name |-> limited_columns[i].column_name,
                       type |-> limited_columns[i].data_type,
                       description |-> limited_columns[i].description]]
  IN  IF Len(columns) > 5
      THEN Append(formatted, [name |-> "...", type |-> MoreColumns(Len(columns) - 5),
                              description |-> ""])
      ELSE formatted

\* ----------------------------------------- DataDictionarySearchEngine.search
\* The orderings argsort may produce for this query on the current index.
SearchOrders(query) ==
  IF embeddings = None \/ metadata = None \/ embeddings = Some(<<>>)
  THEN {<<>>}
  ELSE Argsort(calculate_cosine_similarity(EncodeText(model_name, <<query>>), embeddings[1]))

\* A search without the check of the index: it answers an unbuilt index with
\* an empty list.
search_silent(query, top_k, order) ==
  LET k == IF top_k = None THEN TOP_K_RESULTS ELSE top_k[1]
  IN
  IF embeddings = None \/ metadata = None \/ embeddings = Some(<<>>)
  THEN NoResult
  ELSE
    LET similarities == calculate_cosine_similarity(EncodeText(model_name, <<query>>), embeddings[1])
        top_indices == Take(Reverse(order), k)
    IN  [NoResult EXCEPT
           !.encode_calls = 1,
           !.top_indices = top_indices,
           !.results = [i \in 1..Len(top_indices) |->
                          [rank |-> i,
                           table_name |-> metadata[1][top_indices[i]].table_name,
                           description |-> metadata[1][top_indices[i]].description,
                           relevance_score |-> similarities[top_indices[i]]]]]

\* search(query, top_k), where order is the result of np.argsort
search(query, top_k, order) ==
  LET k == IF top_k = None THEN TOP_K_RESULTS ELSE top_k[1]
  IN
  IF embeddings = None \/ metadata = None
  THEN Raise("ValueError: Index not built. Please build index first.")
  ELSE IF Len(embeddings[1]) = 0
  THEN \* the encoding of an empty batch is a 1-dimensional empty array:
       \* np.linalg.norm(embeddings, axis=1) has no axis 1
       [Raise("AxisError") EXCEPT !.encode_calls = 1]
  ELSE
    LET similarities == calculate_cosine_similarity(EncodeText(model_name, <<query>>), embeddings[1])
        top_indices == Take(Reverse(order), k)
    IN  IF \E i \in 1..Len(top_indices) : top_indices[i] > Len(metadata[1])
        THEN [Raise("IndexError") EXCEPT !.encode_calls = 1]
        ELSE [NoResult EXCEPT
                !.encode_calls = 1,
                !.top_indices = top_indices,
                !.results = [i \in 1..Len(top_indices) |->
                               [rank |-> i,
                                table_name |-> metadata[1][top_indices[i]].table_name,
                                description |-> metadata[1][top_indices[i]].description,
                                relevance_score |-> similarities[top_indices[i]],
                                columns |-> format_columns(metadata[1][top_indices[i]].columns)]]]

\* ------------------------------------------------ TableIndexer.get_index_stats
get_index_stats ==
  IF embeddings = None \/ metadata = None
  THEN [kind |-> "return", status |-> "not_built", num_tables |-> 0]
  ELSE IF Len(embeddings[1]) = 0
  THEN \* embeddings.shape[1] of a 1-dimensional empty array
       [kind |-> "raise", status |-> "IndexError", num_tables |-> 0]
  ELSE [kind |-> "return", status |-> "ready", num_tables |-> Len(metadata[1])]

\* ---------------------------------------------------- TableIndexer.load_index
\* A load without the model check: it installs whatever blob deserializes.
load_index_unchecked(cache_path) ==
  IF PathExists(cache_path) /\ pickle_load(cache_file[1]).ok
  THEN [flag |-> TRUE,
        embeddings |-> Get(pickle_load(cache_file[1]).data, "embeddings"),
        metadata |-> Get(pickle_load(cache_file[1]).data, "metadata")]
  ELSE [flag |-> FALSE, embeddings |-> embeddings, metadata |-> metadata]

\* A load that clears the indexer before it looks for the file.
load_index_reset(cache_path) ==
  IF PathExists(cache_path)
     /\ pickle_load(cache_file[1]).ok
     /\ Get(pickle_load(cache_file[1]).data, "model_name") = Some(model_name)
  THEN [flag |-> TRUE,
        embeddings |-> Get(pickle_load(cache_file[1]).data, "embeddings"),
        metadata |-> Get(pickle_load(cache_file[1]).data, "metadata")]
  ELSE [flag |-> FALSE, embeddings |-> None, metadata |-> None]

\* A load that installs the embeddings and forgets the metadata.
load_index_forgets_metadata(cache_path) ==
  IF PathExists(cache_path)
     /\ pickle_load(cache_file[1]).ok
     /\ Get(pickle_load(cache_file[1]).data, "model_name") = Some(model_name)
  THEN [flag |-> TRUE,
        embeddings |-> Get(pickle_load(cache_file[1]).data, "embeddings"),
        metadata |-> metadata]
  ELSE [flag |-> FALSE, embeddings |-> embeddings, metadata |-> metadata]

\* load_index(cache_path) on an indexer of the given model, embeddings and
\* metadata: the value it returns and the embeddings and metadata it leaves.
LoadResult(model, emb, meta, cache_path) ==
  LET unchanged == [flag |-> FALSE, embeddings |-> emb, metadata |-> meta]
  IN
  IF ~PathExists(cache_path) THEN unchanged
  ELSE
    LET loaded == pickle_load(cache_file[1])
        data == loaded.data
    IN  IF ~loaded.ok THEN unchanged
        ELSE IF ~HasKey(data, "model_name") THEN unchanged
        ELSE IF Get(data, "model_name") # Some(model) THEN unchanged
        ELSE IF ~HasKey(data, "embeddings") THEN unchanged
        ELSE IF ~HasKey(data, "metadata")
        THEN [unchanged EXCEPT !.embeddings = Get(data, "embeddings")]
        ELSE [flag |-> TRUE, embeddings |-> Get(data, "embeddings"),
              metadata |-> Get(data, "metadata")]

\* The value load_index returns and the embeddings and metadata it leaves.
load_index(cache_path) == LoadResult(model_name, embeddings, metadata, cache_path)

\* ------------------------------------------------------------------ actions
TopKs == {None} \cup {Some(k) : k \in 1..MaxTopK}

NoCall == Call("", NoPath, 0, "", None)

\* TableIndexer(model_name)
Construct(mn) ==
  /\ model_name' = (IF mn = "" THEN EMBEDDING_MODEL ELSE mn)
  /\ embeddings' = None
  /\ metadata' = None
  /\ succeeded' = FALSE
  /\ call' = [NoCall EXCEPT !.op = "init"]
  /\ ret' = NoResult
  /\ UNCHANGED <<cache_dir, cache_file, saved, argsort_ties>>

\* What self.model.encode(searchable_texts) may do: raise (None), or return
\* one vector per text.
ProviderOutcomes(texts) == {None, Some(EncodeBatch(model_name, texts))}

\* A provider that breaks its contract returns one vector too few.
FaultyOutcomes(texts) ==
  LET vectors == EncodeBatch(model_name, texts)
  IN  IF Len(vectors) > 0 THEN {Some(SubSeq(vectors, 1, Len(vectors) - 1))} ELSE {}

\* build_index(tables_metadata), where encoded is the outcome of the encode
\* call
build_index(tables_metadata, encoded) ==
  /\ call' = [NoCall EXCEPT !.op = "build_index", !.num_tables = Len(tables_metadata)]
  /\ IF encoded = None
     THEN /\ ret' = [Raise("SourceUnavailable") EXCEPT !.encode_calls = 1]
          /\ UNCHANGED <<embeddings, metadata, succeeded>>
     ELSE /\ embeddings' = Some(encoded[1])
          /\ metadata' = Some(tables_metadata)
          /\ succeeded' = TRUE
          /\ ret' = [NoResult EXCEPT !.encode_calls = 1]
  /\ UNCHANGED <<model_name, cache_dir, cache_file, saved, argsort_ties>>

BuildIndex ==
  \E tables_metadata \in MetadataLists :
    \E encoded \in ProviderOutcomes(SearchableTexts(tables_metadata)) :
      build_index(tables_metadata, encoded)

BuildIndexFaulty ==
  \E tables_metadata \in MetadataLists :
    \E encoded \in FaultyOutcomes(SearchableTexts(tables_metadata)) :
      build_index(tables_metadata, encoded)

\* save_index(cache_path), where written is the number of items of the blob
\* that reach the file: all of them unless the write fails or is interrupted.
save_index(cache_path, written) ==
  LET blob == pickle_dump([embeddings |-> embeddings, metadata |-> metadata,
                           model_name |-> model_name])
      dir_exists == cache_path = NoPath \/ (cache_path = ExplicitPath /\ cache_dir)
  IN
  /\ call' = [NoCall EXCEPT !.op = "save_index", !.cache_path = cache_path]
  /\ cache_dir' = (cache_dir \/ cache_path = NoPath)
  /\ IF ~dir_exists
     THEN /\ ret' = Raise("FileNotFoundError")
          /\ UNCHANGED <<cache_file, saved>>
     ELSE /\ cache_file' = Some(SubSeq(blob, 1, written))
          /\ IF written = Len(blob)
             THEN /\ ret' = NoResult
                  /\ saved' = Some([embeddings |-> embeddings, metadata |-> metadata,
                                    model_name |-> model_name])
             ELSE /\ ret' = Raise("OSError")
                  /\ saved' = None
  /\ UNCHANGED <<model_name, embeddings, metadata, succeeded, argsort_ties>>

\* Where a write may stop, in items written: right after open() has emptied
\* the file, after the first part of the blob, or not at all.
WritePoints == {0, 1, 5}

SaveIndex ==
  \E cache_path \in CachePaths : \E written \in WritePoints : save_index(cache_path, written)

LoadIndex ==
  \E cache_path \in CachePaths :
    LET r == load_index(cache_path)
    IN  /\ call' = [NoCall EXCEPT !.op = "load_index", !.cache_path = cache_path]
        /\ ret' = Return(r.flag)
        /\ embeddings' = r.embeddings
        /\ metadata' = r.metadata
        /\ succeeded' = (succeeded \/ r.flag)
        /\ UNCHANGED <<model_name, cache_dir, cache_file, saved, argsort_ties>>

\* A search that leaves the index sorted by similarity to the query.
SearchSortingIndex ==
  \E query \in Queries : \E top_k \in TopKs : \E order \in SearchOrders(query) :
    /\ call' = [NoCall EXCEPT !.op = "search", !.query = query, !.top_k = top_k]
    /\ ret' = search(query, top_k, order)
    /\ IF embeddings # None /\ metadata # None /\ Len(order) = Len(embeddings[1])
          /\ Len(order) = Len(metadata[1])
       THEN /\ embeddings' = Some([i \in 1..Len(order) |-> embeddings[1][Reverse(order)[i]]])
            /\ metadata' = Some([i \in 1..Len(order) |-> metadata[1][Reverse(order)[i]]])
       ELSE UNCHANGED <<embeddings, metadata>>
    /\ UNCHANGED <<model_name, cache_dir, cache_file, succeeded, saved, argsort_ties>>

Search ==
  \E query \in Queries : \E top_k \in TopKs : \E order \in SearchOrders(query) :
    /\ call' = [NoCall EXCEPT !.op = "search", !.query = query, !.top_k = top_k]
    /\ ret' = search(query, top_k, order)
    /\ UNCHANGED <<model_name, embeddings, metadata, cache_dir, cache_file, succeeded, saved,
                   argsort_ties>>

\* How indexer.load_index() ends on a new indexer of the given model.
CacheLoad(model) ==
  IF ~PathExists(NoPath) THEN "miss"
  ELSE
    LET loaded == pickle_load(cache_file[1])
    IN  IF ~loaded.ok THEN "unreadable"
        ELSE IF LoadResult(model, None, None, NoPath).flag THEN "hit"
        ELSE IF HasKey(loaded.data, "model_name")
                /\ Get(loaded.data, "model_name") # Some(model)
        THEN "incompatible"
        ELSE "unreadable"

\* main.build_index from the fetch on, by an indexer whose load ended as
\* attempt and left it as base: fetched is None when the fetch raises,
\* encode_ok whether the Embedding Provider answers, written the number of
\* blob items that reach the cache file.
rebuild_index(model, use_cache, fetched, encode_ok, written, attempt, base) ==
  LET out == [ret |-> [NoResult EXCEPT !.load = attempt],
              embeddings |-> base.embeddings, metadata |-> base.metadata,
              cache_dir |-> cache_dir, cache_file |-> cache_file, saved |-> saved,
              succeeded |-> FALSE]
  IN
  IF fetched = None
  THEN [out EXCEPT !.ret = [Raise("FetchError") EXCEPT !.load = attempt]]
  ELSE IF Len(fetched[1]) = 0 THEN out
  ELSE IF ~encode_ok
  THEN [out EXCEPT !.ret = [Raise("SourceUnavailable") EXCEPT !.load = attempt,
                                                               !.encode_calls = 1]]
  ELSE
    LET index == [embeddings |-> Some(EncodeBatch(model, SearchableTexts(fetched[1]))),
                  metadata |-> Some(fetched[1]), model_name |-> model]
        blob == pickle_dump(index)
        built == [out EXCEPT !.embeddings = index.embeddings, !.metadata = index.metadata,
                             !.succeeded = TRUE, !.ret.encode_calls = 1]
    IN  IF ~use_cache THEN [built EXCEPT !.ret.flag = TRUE]
        ELSE IF written = Len(blob)
        THEN [built EXCEPT !.ret.flag = TRUE, !.cache_dir = TRUE,
                           !.cache_file = Some(blob), !.saved = Some(index)]
        ELSE [built EXCEPT !.ret.kind = "raise", !.ret.error = "OSError",
                           !.cache_dir = TRUE,
                           !.cache_file = Some(SubSeq(blob, 1, written)), !.saved = None]

\* A main.build_index that takes a missing or incompatible cache for a fault.
main_build_index_strict(force_rebuild, use_cache, model, fetched, encode_ok, written) ==
  LET new == [embeddings |-> None, metadata |-> None]
      loaded == LoadResult(model, None, None, NoPath)
      stay == [ret |-> NoResult, embeddings |-> None, metadata |-> None,
               cache_dir |-> cache_dir, cache_file |-> cache_file, saved |-> saved,
               succeeded |-> FALSE]
  IN
  IF force_rebuild \/ ~use_cache
  THEN rebuild_index(model, use_cache, fetched, encode_ok, written, "", new)
  ELSE IF loaded.flag
  THEN [stay EXCEPT !.ret = [Return(TRUE) EXCEPT !.load = "hit"],
                    !.embeddings = loaded.embeddings, !.metadata = loaded.metadata,
                    !.succeeded = TRUE]
  ELSE IF CacheLoad(model) \in {"miss", "incompatible"}
  THEN [stay EXCEPT !.ret = [Raise("CacheIncompatible") EXCEPT !.load = CacheLoad(model)]]
  ELSE rebuild_index(model, use_cache, fetched, encode_ok, written, CacheLoad(model), loaded)

\* main.build_index(force_rebuild) under Config.USE_CACHE = use_cache and
\* Config.EMBEDDING_MODEL = model: its outcome, the indexer it made and the
\* cache it leaves.
main_build_index(force_rebuild, use_cache, model, fetched, encode_ok, written) ==
  LET new == [embeddings |-> None, metadata |-> None]
      loaded == LoadResult(model, None, None, NoPath)
  IN
  IF force_rebuild \/ ~use_cache
  THEN rebuild_index(model, use_cache, fetched, encode_ok, written, "", new)
  ELSE IF loaded.flag
  THEN [ret |-> [Return(TRUE) EXCEPT !.load = "hit"],
        embeddings |-> loaded.embeddings, metadata |-> loaded.metadata,
        cache_dir |-> cache_dir, cache_file |-> cache_file, saved |-> saved,
        succeeded |-> TRUE]
  ELSE rebuild_index(model, use_cache, fetched, encode_ok, written, CacheLoad(model), loaded)

\* What fetch_table_metadata may do: raise (None), or return the tables the
\* dataset has at the time, ordered by table_name.
FetchOutcomes ==
  {None} \cup {Some(tables_metadata) :
                 tables_metadata \in {<<>>, <<OrdersTable>>, <<UsersTable>>,
                                      <<OrdersTable, UsersTable>>}}

MainBuildIndex ==
  \E force_rebuild \in BOOLEAN, use_cache \in BOOLEAN, model \in Models :
    \E fetched \in FetchOutcomes, encode_ok \in BOOLEAN, written \in WritePoints :
      LET out == main_build_index(force_rebuild, use_cache, model, fetched, encode_ok, written)
      IN  /\ call' = [NoCall EXCEPT !.op = "main.build_index",
                                    !.force_rebuild = force_rebuild,
                                    !.use_cache = use_cache]
          /\ ret' = out.ret
          /\ model_name' = model
          /\ embeddings' = out.embeddings
          /\ metadata' = out.metadata
          /\ cache_dir' = out.cache_dir
          /\ cache_file' = out.cache_file
          /\ saved' = out.saved
          /\ succeeded' = out.succeeded
          /\ UNCHANGED argsort_ties

Init ==
  /\ model_name = EMBEDDING_MODEL
  /\ embeddings = None
  /\ metadata = None
  /\ cache_dir = FALSE
  /\ cache_file = None
  /\ call = [NoCall EXCEPT !.op = "init"]
  /\ ret = NoResult
  /\ succeeded = FALSE
  /\ saved = None
  /\ argsort_ties \in ArgsortKinds

Next ==
  \/ \E mn \in Models \cup {""} : Construct(mn)
  \/ BuildIndex
  \/ SaveIndex
  \/ LoadIndex
  \/ Search

Spec == Init /\ [][Next]_vars

\* Searches of an index built from one table of up to MaxColumns columns.
MaxColumns == 7

ColumnKinds ==
  { [column_name |-> "event_id", data_type |-> "STRING", description |-> "Event ID"],
    [column_name |-> "amount", data_type |-> "FLOAT64", description |-> ""] }

EventsTables ==
  { [table_name |-> "events", description |-> "Event log", columns |-> columns] :
      columns \in SeqsUpTo(ColumnKinds, MaxColumns) }

\* The state after TableIndexer().build_index([table])
InitFormat ==
  \E table \in EventsTables :
    /\ model_name = EMBEDDING_MODEL
    /\ embeddings = Some(EncodeBatch(EMBEDDING_MODEL, SearchableTexts(<<table>>)))
    /\ metadata = Some(<<table>>)
    /\ cache_dir = FALSE
    /\ cache_file = None
    /\ call = [NoCall EXCEPT !.op = "build_index", !.num_tables = 1]
    /\ ret = [NoResult EXCEPT !.encode_calls = 1]
    /\ succeeded = TRUE
    /\ saved = None
    /\ argsort_ties \in ArgsortKinds

NextFormat == Search

SpecFormat == InitFormat /\ [][NextFormat]_vars

\* The runs of the command-line program, each of which calls main.build_index
\* on the cache the earlier runs left.
NextMain == MainBuildIndex

SpecMain == Init /\ [][NextMain]_vars

\* A cache file that did not come from save_index: a complete pickle of a
\* dict that lacks one of the entries load_index reads.
EntryKeys == {"embeddings", "metadata", "model_name"}

ForeignBlob(model, missing) ==
  LET blob == pickle_dump([embeddings |-> Some(EncodeBatch(model, SearchableTexts(<<UsersTable>>))),
                           metadata |-> Some(<<UsersTable>>), model_name |-> model])
  IN  SelectSeq(blob, LAMBDA item : item.key # missing)

ForeignWrite ==
  \E model \in Models : \E missing \in EntryKeys :
    /\ cache_dir' = TRUE
    /\ cache_file' = Some(ForeignBlob(model, missing))
    /\ saved' = None
    /\ call' = [NoCall EXCEPT !.op = "foreign_write"]
    /\ ret' = NoResult
    /\ UNCHANGED <<model_name, embeddings, metadata, succeeded, argsort_ties>>

NextForeign == Next \/ ForeignWrite

SpecForeign == Init /\ [][NextForeign]_vars

\* The same program with an Embedding Provider that may break its contract.
NextFaulty == Next \/ BuildIndexFaulty

SpecFaulty == Init /\ [][NextFaulty]_vars

\* ------------------------------------------------------------------- claims
IndexNotBuiltError == "ValueError: Index not built. Please build index first."

\* C1: while no build_index and no load_index has succeeded on the indexer,
\* search raises the 'Index not built' error for every query and every
\* top_k, and the last search made did so; it never returns a list.
C1_SearchBeforeBuildRaises ==
  ~succeeded =>
    /\ \A query \in Queries : \A top_k \in TopKs : \A order \in SearchOrders(query) :
         LET r == search(query, top_k, order)
         IN  r.kind = "raise" /\ r.error = IndexNotBuiltError /\ r.results = <<>>
    /\ call.op = "search" => ret.kind = "raise" /\ ret.error = IndexNotBuiltError

\* a search made on an indexer whose only loads failed, with a cache file
\* present
C1_Witness ==
  /\ call.op = "search"
  /\ ~succeeded
  /\ cache_file # None
  /\ ret.kind = "raise"

\* The cache file exists, deserializes, and names a model other than the
\* indexer's.
StoredModelDiffers ==
  /\ cache_file # None
  /\ pickle_load(cache_file[1]).ok
  /\ HasKey(pickle_load(cache_file[1]).data, "model_name")
  /\ Get(pickle_load(cache_file[1]).data, "model_name") # Some(model_name)

\* C2: a load_index of an existing cache file whose stored model identifier
\* differs from the indexer's model_name returns False and leaves embeddings
\* and metadata as they were, built or not.
C2_MismatchedModelRefused ==
  [][(call'.op = "load_index" /\ call'.cache_path # NonexistentPath /\ StoredModelDiffers)
       => (ret' = Return(FALSE) /\ embeddings' = embeddings /\ metadata' = metadata)]_vars

\* a refused load on an indexer that was already built, the file holding a
\* built index of the other model
C2_Witness ==
  /\ call.op = "load_index"
  /\ call.cache_path # NonexistentPath
  /\ StoredModelDiffers
  /\ Get(pickle_load(cache_file[1]).data, "embeddings") # None
  /\ embeddings # None
  /\ ret = Return(FALSE)

\* C3: load_index of a location that does not exist returns False, raises
\* nothing, and leaves embeddings and metadata as they were.
C3_MissingFileNotFound ==
  [][(call'.op = "load_index" /\ ~PathExists(call'.cache_path))
       => (ret' = Return(FALSE) /\ embeddings' = embeddings /\ metadata' = metadata)]_vars

\* a load of a missing location on a built indexer
C3_Witness ==
  /\ call.op = "load_index"
  /\ ~PathExists(call.cache_path)
  /\ embeddings # None
  /\ metadata # None
  /\ ret = Return(FALSE)

\* C4: after a completed save_index of a built index, a load_index of that
\* location by an indexer with the same model identifier returns True and
\* leaves embeddings and metadata equal to the saved ones, in the same order.
C4_SaveLoadRoundTrip ==
  (/\ call.op = "load_index"
   /\ call.cache_path # NonexistentPath
   /\ saved # None
   /\ saved[1].embeddings # None
   /\ saved[1].metadata # None
   /\ saved[1].model_name = model_name)
  => (/\ ret = Return(TRUE)
      /\ embeddings = saved[1].embeddings
      /\ metadata = saved[1].metadata)

\* a successful load of a saved index of two different records
C4_Witness ==
  /\ call.op = "load_index"
  /\ ret = Return(TRUE)
  /\ saved # None
  /\ saved[1].model_name = model_name
  /\ metadata # None
  /\ Len(metadata[1]) = 2
  /\ metadata[1][1] # metadata[1][2]
  /\ embeddings = saved[1].embeddings

\* The indexer counts as built: search and get_index_stats pass their check.
Built == embeddings # None /\ metadata # None

Min(a, b) == IF a < b THEN a ELSE b

\* C5: a search of a built index of n records with a positive top_k returns
\* exactly min(top_k, n) results, and no indexed record twice.
C5_ResultCount ==
  (/\ call.op = "search"
   /\ Built
   /\ (call.top_k = None \/ call.top_k[1] > 0))
  => (/\ ret.kind = "return"
      /\ Len(ret.results) = Min(IF call.top_k = None THEN TOP_K_RESULTS ELSE call.top_k[1],
                                Len(metadata[1]))
      /\ \A i, j \in 1..Len(ret.top_indices) :
           i # j => ret.top_indices[i] # ret.top_indices[j])

\* The similarities of the last search's query to the indexed vectors.
LastSimilarities ==
  calculate_cosine_similarity(EncodeText(model_name, <<call.query>>), embeddings[1])

\* C6: the results of a search are in descending order of similarity, and of
\* two records of equal similarity the one built first comes first, and is the
\* one kept when top_k cuts between them.
C6_StableDescendingOrder ==
  (call.op = "search" /\ ret.kind = "return" /\ Built)
  => LET top == ret.top_indices
         sims == LastSimilarities
     IN  /\ \A i, j \in 1..Len(top) :
              i < j => /\ sims[top[i]] >= sims[top[j]]
                       /\ (sims[top[i]] = sims[top[j]] => top[i] < top[j])
         /\ \A i \in 1..Len(top) : \A other \in 1..Len(sims) :
              (sims[other] = sims[top[i]] /\ other < top[i])
                => \E j \in 1..Len(top) : top[j] = other

\* C7: a build_index with an empty metadata list, returning on an unbuilt
\* indexer, has made no embedding call and leaves the state unset:
\* get_index_stats then reports 'not_built' and search raises the
\* index-not-built error.
C7_EmptyBuildLeavesUnset ==
  [][(/\ call'.op = "build_index"
      /\ call'.num_tables = 0
      /\ ret'.kind = "return"
      /\ embeddings = None
      /\ metadata = None)
       => (/\ ret'.encode_calls = 0
           /\ embeddings' = None
           /\ metadata' = None
           /\ get_index_stats'.status = "not_built"
           /\ \A query \in Queries : \A order \in SearchOrders(query)' :
                search(query, None, order)'.error = IndexNotBuiltError)]_vars

\* C8: whenever the indexer counts as built, and after every load_index that
\* returned True, there are as many vectors as metadata records, at least
\* one, and vector i is the embedding of record i.
C8_IndexInvariant ==
  /\ (call.op = "load_index" /\ ret = Return(TRUE)) => Built
  /\ Built =>
       /\ Len(embeddings[1]) = Len(metadata[1])
       /\ Len(metadata[1]) > 0
       /\ \A i \in 1..Len(metadata[1]) :
            i <= Len(embeddings[1])
              => embeddings[1][i] = EncodeText(model_name, create_searchable_text(metadata[1][i]))

\* C9: a build_index whose embedding call raises, or returns a number of
\* vectors other than the number of records, fails and leaves embeddings and
\* metadata as they were: no index of mismatched lengths is ever installed.
C9_BuildFailsAtomically ==
  [][call'.op = "build_index"
       => /\ (ret'.kind = "raise" => (embeddings' = embeddings /\ metadata' = metadata))
          /\ (ret'.kind = "return" => Len(embeddings'[1]) = call'.num_tables)]_vars

\* C10: whatever happens to a save_index, the cache file afterwards is the
\* file as it was before (or still absent) or the complete new blob.
C10_SaveAtomicOrFail ==
  [][call'.op = "save_index"
       => \/ cache_file' = cache_file
          \/ cache_file' = Some(pickle_dump([embeddings |-> embeddings, metadata |-> metadata,
                                             model_name |-> model_name]))]_vars

\* C11: a load_index of a location that exists but does not deserialize
\* gives the caller an outcome other than the one of a missing location,
\* which is the return value False.
C11_CorruptDistinctFromNotFound ==
  (/\ call.op = "load_index"
   /\ PathExists(call.cache_path)
   /\ ~pickle_load(cache_file[1]).ok)
  => ret # Return(FALSE)


\* C12: the column list of a search result has one entry per column, in
\* source order, when the record has at most 5 columns, and otherwise the
\* first 5 followed by one entry named '...' whose type states how many
\* columns are left out.
C12_ColumnTruncation ==
  (call.op = "search" /\ ret.kind = "return")
  => \A i \in 1..Len(ret.results) :
       LET columns == metadata[1][ret.top_indices[i]].columns
           c == Len(columns)
           formatted == ret.results[i].columns
       IN  /\ Len(formatted) = (IF c <= 5 THEN c ELSE 6)
           /\ \A j \in 1..Min(c, 5) :
                formatted[j] = [name |-> columns[j].column_name,
                                type |-> columns[j].data_type,
                                description |-> columns[j].description]
           /\ c > 5 => /\ formatted[6].name = "..."
                       /\ formatted[6].type = <<"(", c - 5, " more columns)">>

\* a result for a record of 7 columns: 6 entries, the last stating 2 more
C12_Witness ==
  /\ call.op = "search"
  /\ ret.kind = "return"
  /\ Len(ret.results) = 1
  /\ Len(metadata[1][1].columns) = 7
  /\ Len(ret.results[1].columns) = 6
  /\ ret.results[1].columns[6].type = <<"(", 2, " more columns)">>


\* C13: a search leaves the indexer's embeddings, metadata and model
\* identifier as they were, and the same query and top_k made again on the
\* state a search leaves returns the same result.
C13_SearchHasNoSideEffect ==
  /\ [][call'.op = "search"
          => (embeddings' = embeddings /\ metadata' = metadata /\ model_name' = model_name)]_vars
  /\ [](call.op = "search"
          => \A order \in SearchOrders(call.query) :
               search(call.query, call.top_k, order) = ret)

\* a search of a built index of two records that returned both
C13_Witness ==
  /\ call.op = "search"
  /\ ret.kind = "return"
  /\ Len(ret.results) = 2
  /\ ret.results[1].table_name # ret.results[2].table_name


\* C14: a save_index whose write is not cut short succeeds for every
\* location, passed explicitly or defaulted: a missing parent directory is
\* created and the file is written.
C14_SaveCreatesParentDirectory ==
  (call.op = "save_index" /\ ret.error # "OSError")
  => /\ ret.kind = "return"
     /\ call.cache_path # NonexistentPath => (cache_dir /\ cache_file # None)


\* The index of the indexer, as save_index writes it.
CurrentIndex == [embeddings |-> embeddings, metadata |-> metadata, model_name |-> model_name]

\* C15: in main.build_index with caching enabled and force_rebuild false, a
\* missing cache or a cache of another model does not make the call raise:
\* an exception comes only from the fetch, the Embedding Provider or the
\* write, and a call that returns an indexer after such a load has encoded
\* the fetched tables once and overwritten the cache. Every indexer returned
\* is built from a non-empty list, with caching its index is the content of
\* the cache, and a following call with the same model returns that index
\* from the cache without encoding.
C15_CacheMissRebuilds ==
  /\ [](call.op = "main.build_index"
          => /\ ret.kind = "raise" => ret.error \in {"FetchError", "SourceUnavailable", "OSError"}
             /\ ret.flag => /\ Built
                            /\ Len(metadata[1]) > 0
                            /\ Len(embeddings[1]) = Len(metadata[1])
             /\ (ret.flag /\ call.use_cache)
                  => /\ saved = Some(CurrentIndex)
                     /\ cache_file = Some(pickle_dump(CurrentIndex))
             /\ (ret.flag /\ ret.load \in {"miss", "incompatible"}) => ret.encode_calls = 1)
  /\ [][(/\ Built
         /\ saved = Some(CurrentIndex)
         /\ call'.op = "main.build_index"
         /\ call'.use_cache
         /\ ~call'.force_rebuild
         /\ model_name' = model_name)
        => (/\ ret'.flag
            /\ ret'.load = "hit"
            /\ ret'.encode_calls = 0
            /\ embeddings' = embeddings
            /\ metadata' = metadata)]_vars

\* A call found the cache of another model, rebuilt and overwrote it.
C15_Witness ==
  /\ call.op = "main.build_index"
  /\ call.use_cache
  /\ ~call.force_rebuild
  /\ ret.load = "incompatible"
  /\ ret.flag
  /\ model_name = OtherModel
  /\ cache_file = Some(pickle_dump(CurrentIndex))


\* C16: every load_index call that returns False (missing file, model
\* mismatch, unreadable blob, or a blob lacking one of the 'embeddings',
\* 'metadata', 'model_name' entries) leaves the indexer's embeddings and its
\* metadata exactly as they were before the call.
C16_FailedLoadLeavesIndexer ==
  [][(call'.op = "load_index" /\ ret' = Return(FALSE))
       => (embeddings' = embeddings /\ metadata' = metadata)]_vars

====
